---- MODULE Spec2Model ----
(***************************************************************************)
(* A model of the crypto ETL pipeline: pipeline.py (init_db, fetch_candles, *)
(* store_data, run_pipeline) and pipeline_visualization.py                  *)
(* (fetch_aggregated_data).                                                 *)
(*                                                                          *)
(* Time is counted in whole seconds.  A naive datetime handed to            *)
(* fetch_candles and a candle's unix timestamp are both integers: seconds   *)
(* since 1970-01-01T00:00:00.  An ISO-8601 text 'YYYY-MM-DDTHH:MM:SS+00:00' *)
(* is the tuple <<YYYY, MM, DD, HH, MM, SS>> of its fields; the text        *)
(* 'YYYY-MM-DD HH:00:00' that strftime produces is such a tuple too.        *)
(* Prices and volumes are integers; a mean is an exact reduced fraction.    *)
(***************************************************************************)
EXTENDS Integers, Sequences, FiniteSets, TLC

VARIABLES
    pc,             \* position of the running script
    start,          \* fetch_candles' parameter start
    end,            \* fetch_candles' parameter end
    idx,            \* run_pipeline: index in PRODUCT_IDS of the loop variable id
    current_start,  \* fetch_candles' local
    current_end,    \* fetch_candles' local: <<>> while unassigned, else <<t>>
    all_candles,    \* fetch_candles' local, and run_pipeline's candles once returned
    requests,       \* history: the HTTP GETs issued so far, in order
    responses,      \* history: the responses received so far, in order
    sleeps,         \* history: the number of completed time.sleep(0.5) calls
    table,          \* the candles table: its rows in rowid order
    count,          \* store_data's local count, as last reported
    df,             \* the data frame fetch_aggregated_data returned
    occurred,       \* history: the (unix time, product) pairs store_data was given
    added,          \* history: rows the last store_data call added to the table
    conflict,       \* history: the last store_data call met a stored key with other values
    calls           \* number of store_data calls made

vars == <<pc, start, end, idx, current_start, current_end, all_candles, requests,
          responses, sleeps, table, count, df, occurred, added, conflict, calls>>

---------------------------------------------------------------------------
(* Configuration, pipeline.py lines 8-15 *)

PRODUCT_IDS == <<"BTC-USD", "ETH-USD">>

\* datetime(2025, 11, 17, 0, 0), in seconds since the epoch
START_TIME == 1763337600

GRANULARITY == 60

\* the API's limit of data points per request
API_MAX_POINTS == 300

\* the minutes of timedelta(minutes=300)
DELTA_MINUTES == 300

\* delta = timedelta(minutes=300), in seconds
delta == DELTA_MINUTES * 60

\* HTTP 200
HTTP_OK == 200

---------------------------------------------------------------------------
(* Bounds of the model *)

\* fetch_candles is called with end at most this many full windows after START_TIME
MaxWindows == 2

\* store_data calls made in a run of the store specification
MaxCalls == 2

\* longest candle list handed to store_data in the store specification
MaxLen == 2

\* longest candle list stored per product before the aggregation is run
MaxVizLen == 2

Products == {PRODUCT_IDS[i] : i \in DOMAIN PRODUCT_IDS}

---------------------------------------------------------------------------
(* Calendar arithmetic: datetime.fromtimestamp(t, timezone.utc).isoformat() *)

SecondsPerDay == 86400

SecondsPerHour == 3600

\* the proleptic Gregorian date <<y, m, d>> of day number z (days since 1970-01-01)
CivilFromDays(z) ==
    LET zz == z + 719468
        era == zz \div 146097
        doe == zz - era * 146097
        yoe == (doe - doe \div 1460 + doe \div 36524 - doe \div 146096) \div 365
        doy == doe - (365 * yoe + yoe \div 4 - yoe \div 100)
        mp == (5 * doy + 2) \div 153
        d == doy - (153 * mp + 2) \div 5 + 1
        m == IF mp < 10 THEN mp + 3 ELSE mp - 9
        y == yoe + era * 400 + (IF m <= 2 THEN 1 ELSE 0)
    IN <<y, m, d>>

\* day number of the date y-m-d
DaysFromCivil(y, m, d) ==
    LET yy == IF m <= 2 THEN y - 1 ELSE y
        era == yy \div 400
        yoe == yy - era * 400
        mp == IF m > 2 THEN m - 3 ELSE m + 9
        doy == (153 * mp + 2) \div 5 + d - 1
        doe == yoe * 365 + yoe \div 4 - yoe \div 100 + doy
    IN era * 146097 + doe - 719468

\* datetime.fromtimestamp(t, timezone.utc).isoformat(): the fields of
\* 'YYYY-MM-DDTHH:MM:SS+00:00'
IsoFormat(t) ==
    LET days == t \div SecondsPerDay
        secs == t % SecondsPerDay
        ymd == CivilFromDays(days)
    IN <<ymd[1], ymd[2], ymd[3],
         secs \div SecondsPerHour, (secs % SecondsPerHour) \div 60, secs % 60>>

---------------------------------------------------------------------------
(* The candles table and store_data, pipeline.py lines 18-44 and 92-116 *)

\* A candle of the API: <<time, low, high, open, close, volume>>.
\* The row store_data binds to the INSERT for it (lines 102-110).
RowOf(product_id, candle) ==
    [timestamp |-> IsoFormat(candle[1]), product_id |-> product_id,
     low |-> candle[2], high |-> candle[3], open |-> candle[4],
     close |-> candle[5], volume |-> candle[6]]

\* PRIMARY KEY (timestamp, product_id): a row of tbl has the key of row
HasKey(tbl, row) ==
    \E i \in DOMAIN tbl : /\ tbl[i].timestamp = row.timestamp
                          /\ tbl[i].product_id = row.product_id

\* INSERT without the primary key: every row is added
InsertAlways(tbl, row) == Append(tbl, row)

\* INSERT OR REPLACE: the stored row of the key is deleted and the new one added
InsertOrReplace(tbl, row) ==
    Append(SelectSeq(tbl, LAMBDA r : ~(/\ r.timestamp = row.timestamp
                                       /\ r.product_id = row.product_id)), row)

\* an upsert: the stored row of the key takes the new values
InsertOrUpdate(tbl, row) ==
    IF \E i \in DOMAIN tbl : /\ tbl[i].timestamp = row.timestamp
                             /\ tbl[i].product_id = row.product_id
    THEN [i \in DOMAIN tbl |->
            IF /\ tbl[i].timestamp = row.timestamp
               /\ tbl[i].product_id = row.product_id
            THEN row ELSE tbl[i]]
    ELSE Append(tbl, row)

\* INSERT OR IGNORE INTO candles: a row whose key is taken is dropped
InsertOrIgnore(tbl, row) ==
    IF HasKey(tbl, row) THEN tbl ELSE Append(tbl, row)

\* the table after store_data's loop over candles
RECURSIVE StoreRows(_, _, _)
StoreRows(tbl, product_id, candles) ==
    IF candles = <<>> THEN tbl
    ELSE StoreRows(InsertOrIgnore(tbl, RowOf(product_id, Head(candles))),
                   product_id, Tail(candles))

\* store_data's count: one more for every execute that raised no sqlite3.Error
RECURSIVE StoreCount(_)
StoreCount(candles) ==
    IF candles = <<>> THEN 0 ELSE 1 + StoreCount(Tail(candles))

\* init_db(reset): DROP TABLE IF EXISTS when reset, then CREATE TABLE IF NOT EXISTS
InitDb(tbl, reset) == IF reset THEN <<>> ELSE tbl

\* what a call store_data(conn, product_id, candles) does to the state
StoreEffect(product_id, candles) ==
    /\ table' = StoreRows(table, product_id, candles)
    /\ count' = StoreCount(candles)
    /\ calls' = calls + 1
    /\ occurred' = occurred \cup {<<candles[i][1], product_id>> : i \in DOMAIN candles}
    /\ added' = Len(table') - Len(table)
    /\ conflict' = \E i \in DOMAIN candles : \E j \in DOMAIN table' :
                      /\ table'[j].timestamp = IsoFormat(candles[i][1])
                      /\ table'[j].product_id = product_id
                      /\ table'[j] # RowOf(product_id, candles[i])

---------------------------------------------------------------------------
(* fetch_candles, pipeline.py lines 46-89 *)

\* the window never cut back to end
NextEndUnclamped(cs, e) == cs + delta

\* lines 61-63: current_end = current_start + delta, cut back to end
NextEnd(cs, e) == IF cs + delta > e THEN e ELSE cs + delta

\* a loop that runs only while a full window is left
LoopGuardFullWindow(cs, e) == cs + delta < e

\* line 60: the loop test
LoopGuard(cs, e) == cs < e

\* lines 66-72: the GET for the window
Request(product_id, cs, ce, granularity) ==
    [product_id |-> product_id, start |-> cs, end |-> ce, granularity |-> granularity]

\* all_candles assigned instead of extended
ExtendOverwrite(candles, status, data) ==
    IF status = HTTP_OK
    THEN (IF data # <<>> THEN data ELSE candles)
    ELSE candles

\* lines 74-82: all_candles after a response
Extend(candles, status, data) ==
    IF status = HTTP_OK
    THEN (IF data # <<>> THEN candles \o data ELSE candles)
    ELSE candles

\* the pause taken only after a 200 response
AfterResponseSleepOnOk(status) == IF status = HTTP_OK THEN "sleep" ELSE "loop"

\* lines 74-87: where fetch_candles goes once the response is handled
AfterResponse(status) == "sleep"

---------------------------------------------------------------------------
(* fetch_aggregated_data, pipeline_visualization.py lines 22-47 *)

\* a format that keeps the minutes: '%Y-%m-%d %H:%M:00'
MinuteBucket(ts) == <<ts[1], ts[2], ts[3], ts[4], ts[5], 0>>

\* strftime('%Y-%m-%d %H:00:00', timestamp): the text's date and hour, with
\* minutes and seconds replaced by 00 (the offset +00:00 shifts nothing)
HourBucket(ts) == <<ts[1], ts[2], ts[3], ts[4], 0, 0>>

\* GROUP BY product_id, hour_bucket: the groups of the table
GroupKeys(tbl) ==
    {<<tbl[i].product_id, HourBucket(tbl[i].timestamp)>> : i \in DOMAIN tbl}

\* the rows (by position) of one group
Members(tbl, key) ==
    {i \in DOMAIN tbl : <<tbl[i].product_id, HourBucket(tbl[i].timestamp)>> = key}

\* sum of f over the index set I
RECURSIVE SumOver(_, _)
SumOver(f, I) ==
    IF I = {} THEN 0
    ELSE LET i == CHOOSE x \in I : TRUE IN f[i] + SumOver(f, I \ {i})

RECURSIVE Gcd(_, _)
Gcd(a, b) == IF b = 0 THEN a ELSE Gcd(b, a % b)

\* AVG: the sum divided by the number of rows, as a reduced fraction
Mean(sum, n) ==
    LET g == Gcd(sum, n) IN [num |-> sum \div g, den |-> n \div g]

\* one row of the query's result
AggRow(tbl, key) ==
    LET I == Members(tbl, key)
    IN [product_id |-> key[1],
        hour_bucket |-> key[2],
        hourly_avg_price |-> Mean(SumOver([i \in DOMAIN tbl |-> tbl[i].close], I),
                                  Cardinality(I)),
        hourly_total_volume |-> SumOver([i \in DOMAIN tbl |-> tbl[i].volume], I)]

\* ORDER BY hour_bucket ASC compares the texts; fields have fixed widths
TextLess(a, b) ==
    \E k \in 1..6 : /\ a[k] < b[k]
                    /\ \A j \in 1..(k - 1) : a[j] = b[j]

\* the orders ORDER BY hour_bucket ASC allows; rows of one hour come in any order
RECURSIVE Orderings(_)
Orderings(rows) ==
    IF rows = {} THEN {<<>>}
    ELSE UNION {{<<m>> \o rest : rest \in Orderings(rows \ {m})} :
                m \in {r \in rows :
                          \A q \in rows : ~TextLess(q.hour_bucket, r.hour_bucket)}}

\* pd.to_datetime on a text 'YYYY-MM-DD HH:MM:SS': the naive timestamp, in seconds
ToDatetime(text) ==
    DaysFromCivil(text[1], text[2], text[3]) * SecondsPerDay
        + text[4] * SecondsPerHour + text[5] * 60 + text[6]

\* line 46: the hour_bucket column converted
ConvertColumn(frame) ==
    [i \in DOMAIN frame |->
        [frame[i] EXCEPT !.hour_bucket = ToDatetime(frame[i].hour_bucket)]]

\* the data frames fetch_aggregated_data may return for a table
Frames(tbl) ==
    {ConvertColumn(f) : f \in Orderings({AggRow(tbl, key) : key \in GroupKeys(tbl)})}

---------------------------------------------------------------------------
(* Inputs of the model *)

\* a candle at time t whose prices and volume are fixed by k
Candle(t, k) == <<t, 10 * k, 10 * k + 5, 10 * k + 1, 10 * k + 2, k>>

SeqsUpTo(S, n) == UNION {[1..m -> S] : m \in 0..n}

\* the start and end fetch_candles is called with
Starts == {START_TIME, START_TIME + 1}

Ends == {START_TIME + k * delta + o : k \in 0..MaxWindows, o \in {0 - 60, 0, 60}}

\* the candle lists a 200 response may carry
Bodies ==
    {<<>>,
     <<Candle(START_TIME, 1)>>,
     <<Candle(START_TIME + 60, 1), Candle(START_TIME, 2)>>}

\* what the API may answer: 200 with a list of candles, or an error status
\* with a body that the code must not use
Responses ==
    {[status |-> HTTP_OK, data |-> b] : b \in Bodies}
        \cup {[status |-> 429, data |-> <<Candle(START_TIME, 3)>>]}

\* what the database file may hold before the script runs
PriorTables == {<<>>, <<RowOf(PRODUCT_IDS[1], Candle(START_TIME, 3))>>}

\* the candle lists of the store specification: one minute with two different
\* sets of values, and the next minute
StoreCandles ==
    {Candle(START_TIME, 1), Candle(START_TIME, 2), Candle(START_TIME + 60, 1)}

CandleLists == SeqsUpTo(StoreCandles, MaxLen)

\* the candle lists of the aggregation specification: two minutes of one hour,
\* the next hour, and the same hour of the next day
VizCandles ==
    {Candle(START_TIME, 1), Candle(START_TIME + 3540, 2),
     Candle(START_TIME + SecondsPerHour, 3), Candle(START_TIME + SecondsPerDay, 4)}

VizLists == SeqsUpTo(VizCandles, MaxVizLen)

---------------------------------------------------------------------------
(* run_pipeline, pipeline.py lines 118-127, with fetch_candles step by step *)

Init ==
    /\ pc = "start"
    /\ start \in Starts
    /\ end \in {e \in Ends : e - start <= MaxWindows * delta}
    /\ idx = 1
    /\ current_start = start
    /\ current_end = <<>>
    /\ all_candles = <<>>
    /\ requests = <<>>
    /\ responses = <<>>
    /\ sleeps = 0
    /\ table \in PriorTables
    /\ count = 0
    /\ df = <<>>
    /\ occurred = {}
    /\ added = 0
    /\ conflict = FALSE
    /\ calls = 0

\* lines 51-59: fetch_candles is entered
EnterFetch ==
    /\ current_start' = start
    /\ current_end' = <<>>
    /\ all_candles' = <<>>

\* line 120, then lines 122-123 up to the first loop test of fetch_candles
RunInitDb ==
    /\ pc = "start"
    /\ table' = InitDb(table, TRUE)
    /\ EnterFetch
    /\ pc' = "loop"
    /\ UNCHANGED <<start, end, idx, requests, responses, sleeps, count, df,
                   occurred, added, conflict, calls>>

\* lines 60-72: the loop test passes, the window is cut and the GET is issued
SendRequest ==
    /\ pc = "loop"
    /\ LoopGuard(current_start, end)
    /\ current_end' = <<NextEnd(current_start, end)>>
    /\ requests' = Append(requests, Request(PRODUCT_IDS[idx], current_start,
                                            current_end'[1], GRANULARITY))
    /\ pc' = "await"
    /\ UNCHANGED <<start, end, idx, current_start, all_candles, responses, sleeps,
                   table, count, df, occurred, added, conflict, calls>>

\* lines 72-84: the response arrives and is handled, the window advances
ReceiveResponse(r) ==
    /\ pc = "await"
    /\ responses' = Append(responses, r)
    /\ all_candles' = Extend(all_candles, r.status, r.data)
    /\ current_start' = current_end[1]
    /\ pc' = AfterResponse(r.status)
    /\ UNCHANGED <<start, end, idx, current_end, requests, sleeps, table, count, df,
                   occurred, added, conflict, calls>>

\* line 87: time.sleep(0.5) returns
Sleep ==
    /\ pc = "sleep"
    /\ sleeps' = sleeps + 1
    /\ pc' = "loop"
    /\ UNCHANGED <<start, end, idx, current_start, current_end, all_candles,
                   requests, responses, table, count, df, occurred, added,
                   conflict, calls>>

\* lines 60 and 89: the loop test fails and fetch_candles returns all_candles
FetchReturn ==
    /\ pc = "loop"
    /\ ~LoopGuard(current_start, end)
    /\ pc' = "store"
    /\ UNCHANGED <<start, end, idx, current_start, current_end, all_candles,
                   requests, responses, sleeps, table, count, df, occurred, added,
                   conflict, calls>>

\* line 124, then the next product's fetch_candles is entered, or lines 126-127
Store ==
    /\ pc = "store"
    /\ StoreEffect(PRODUCT_IDS[idx], all_candles)
    /\ IF idx < Len(PRODUCT_IDS)
       THEN /\ idx' = idx + 1
            /\ EnterFetch
            /\ pc' = "loop"
       ELSE /\ pc' = "done"
            /\ UNCHANGED <<idx, current_start, current_end, all_candles>>
    /\ UNCHANGED <<start, end, requests, responses, sleeps, df>>

Next ==
    \/ RunInitDb
    \/ SendRequest
    \/ \E r \in Responses : ReceiveResponse(r)
    \/ Sleep
    \/ FetchReturn
    \/ Store

Spec == Init /\ [][Next]_vars

\* fetch_candles runs on: the loop is entered, every GET is answered, every
\* sleep returns, and the call returns once its loop test fails
FairSpec ==
    /\ Spec
    /\ WF_vars(RunInitDb)
    /\ WF_vars(SendRequest)
    /\ WF_vars(\E r \in Responses : ReceiveResponse(r))
    /\ WF_vars(Sleep)
    /\ WF_vars(FetchReturn)

---------------------------------------------------------------------------
(* init_db and store_data called in any order with any arguments *)

StoreInit ==
    /\ pc = "idle"
    /\ start = START_TIME
    /\ end = START_TIME
    /\ idx = 1
    /\ current_start = START_TIME
    /\ current_end = <<>>
    /\ all_candles = <<>>
    /\ requests = <<>>
    /\ responses = <<>>
    /\ sleeps = 0
    /\ table \in {InitDb(t, reset) : t \in PriorTables, reset \in BOOLEAN}
    /\ count = 0
    /\ df = <<>>
    /\ occurred = {}
    /\ added = 0
    /\ conflict = FALSE
    /\ calls = 0

\* store_data(conn, product_id, candles), lines 92-116
StoreData(product_id, candles) ==
    /\ pc = "idle"
    /\ calls < MaxCalls
    /\ StoreEffect(product_id, candles)
    /\ UNCHANGED <<pc, start, end, idx, current_start, current_end, all_candles,
                   requests, responses, sleeps, df>>

\* init_db(reset), lines 18-44
InitDbCall(reset) ==
    /\ pc = "idle"
    /\ table' = InitDb(table, reset)
    /\ occurred' = IF reset THEN {} ELSE occurred
    /\ UNCHANGED <<pc, start, end, idx, current_start, current_end, all_candles,
                   requests, responses, sleeps, count, df, added, conflict, calls>>

StoreNext ==
    \/ \E p \in Products, cs \in CandleLists : StoreData(p, cs)
    \/ \E reset \in BOOLEAN : InitDbCall(reset)

StoreSpec == StoreInit /\ [][StoreNext]_vars

---------------------------------------------------------------------------
(* The visualization script run on a database the pipeline has filled *)

\* the tables run_pipeline leaves: one store_data call per product on a fresh table
VizTables ==
    {StoreRows(StoreRows(InitDb(<<>>, TRUE), PRODUCT_IDS[1], l1), PRODUCT_IDS[2], l2) :
        l1 \in VizLists, l2 \in VizLists}

VizInit ==
    /\ pc = "viz"
    /\ start = START_TIME
    /\ end = START_TIME
    /\ idx = 1
    /\ current_start = START_TIME
    /\ current_end = <<>>
    /\ all_candles = <<>>
    /\ requests = <<>>
    /\ responses = <<>>
    /\ sleeps = 0
    /\ table \in VizTables
    /\ count = 0
    /\ df = <<>>
    /\ occurred = {}
    /\ added = 0
    /\ conflict = FALSE
    /\ calls = 0

\* fetch_aggregated_data(), lines 22-47
FetchAggregatedData ==
    /\ pc = "viz"
    /\ df' \in Frames(table)
    /\ pc' = "aggregated"
    /\ UNCHANGED <<start, end, idx, current_start, current_end, all_candles,
                   requests, responses, sleeps, table, count, occurred, added,
                   conflict, calls>>

VizNext == FetchAggregatedData

VizSpec == VizInit /\ [][VizNext]_vars

---------------------------------------------------------------------------
(* Properties of fetch_candles and run_pipeline *)

\* the GETs issued so far for the k-th product, in order
WindowsOf(k) == SelectSeq(requests, LAMBDA r : r.product_id = PRODUCT_IDS[k])

\* the products whose fetch_candles call has been entered
Entered == IF pc = "start" THEN {} ELSE 1..idx

\* the k-th product's fetch_candles call has returned
Returned(k) == k \in Entered /\ (k < idx \/ pc \in {"store", "done"})

\* C2: the windows requested by one call of fetch_candles tile [start, end]:
\* the first starts at start, each next one starts where the one before ended,
\* every window but the last is 300 minutes long, the last is longer than 0
\* and at most 300 minutes and ends at end, and no window is requested twice.
C2_WindowTiling ==
    \A k \in Entered :
        LET W == WindowsOf(k)
        IN /\ W # <<>> => W[1].start = start
           /\ \A i \in 1..(Len(W) - 1) :
                 /\ W[i + 1].start = W[i].end
                 /\ W[i].end - W[i].start = 300 * 60
           /\ \A i \in DOMAIN W :
                 /\ 0 < W[i].end - W[i].start
                 /\ W[i].end - W[i].start <= 300 * 60
                 /\ W[i].end <= end
           /\ \A i, j \in DOMAIN W : i # j => W[i] # W[j]
           /\ (Returned(k) /\ start < end) => (W # <<>> /\ W[Len(W)].end = end)

\* C2's case: a finished run of two windows per product, the last one cut short
C2_Witness ==
    /\ pc = "done"
    /\ Len(WindowsOf(1)) = 2
    /\ WindowsOf(1)[2].end - WindowsOf(1)[2].start < delta

\* the candle instants (multiples of the granularity) of a request's closed window
InstantsIn(r) == r.end \div r.granularity - (r.start - 1) \div r.granularity

\* C4: every request's closed window [current_start, current_end] holds at most
\* 300 candle instants, one granularity apart.
C4_RequestLimit == \A i \in DOMAIN requests : InstantsIn(requests[i]) <= API_MAX_POINTS

\* C5: requests are sequential and paced: while a GET is in flight every earlier
\* GET has been answered and followed by a completed pause; no GET is in flight
\* during a pause; whatever the responses were.
C5_RateLimit ==
    /\ pc = "await" => /\ Len(responses) = Len(requests) - 1
                       /\ sleeps = Len(requests) - 1
    /\ pc = "sleep" => /\ Len(responses) = Len(requests)
                       /\ sleeps = Len(requests) - 1
    /\ pc \notin {"await", "sleep"} => /\ Len(responses) = Len(requests)
                                       /\ sleeps = Len(requests)

\* C5's case: the second product's GET is in flight after a failed response
C5_Witness ==
    /\ pc = "await"
    /\ idx = 2
    /\ Len(requests) >= 2
    /\ responses[Len(responses)].status # HTTP_OK

\* the bodies of the 200 responses to the k-th product's GETs, concatenated in order
RECURSIVE OkBodiesFrom(_, _)
OkBodiesFrom(k, i) ==
    IF i > Len(responses) THEN <<>>
    ELSE (IF requests[i].product_id = PRODUCT_IDS[k] /\ responses[i].status = HTTP_OK
          THEN responses[i].data ELSE <<>>) \o OkBodiesFrom(k, i + 1)

\* C6: no window is requested twice, a failed or empty response adds nothing and
\* the next window still follows, and all_candles (the value returned) is the
\* concatenation in window order of the bodies of the 200 responses.
C6_NoRetry ==
    /\ \A i, j \in DOMAIN requests : i # j => requests[i] # requests[j]
    /\ \A i \in DOMAIN responses :
          (i + 1 \in DOMAIN requests /\ requests[i + 1].product_id = requests[i].product_id)
              => requests[i + 1].start = requests[i].end
    /\ pc \in {"loop", "await", "sleep", "store"} => all_candles = OkBodiesFrom(idx, 1)

\* C6's case: fetch_candles returns data after its first window failed
C6_Witness ==
    /\ pc = "store"
    /\ Len(WindowsOf(idx)) = 2
    /\ \E i \in DOMAIN responses :
          /\ requests[i] = WindowsOf(idx)[1]
          /\ responses[i].status # HTTP_OK
    /\ all_candles # <<>>

\* ceil((e - s) / 300 minutes) for s < e, else 0
ExpectedRequests(s, e) ==
    IF s < e THEN ((e - s) + (300 * 60 - 1)) \div (300 * 60) ELSE 0

\* C9: fetch_candles terminates: a call that has been entered returns,
\* current_start grows on every iteration and never passes end, and a call that
\* has returned has issued ceil((end - start) / 300 minutes) requests,
\* none when start >= end, in which case it returns the empty list.
C9_Termination ==
    /\ (pc \in {"loop", "await", "sleep"}) ~> (pc = "store")
    /\ [][(pc = "await" /\ pc' # "await") =>
             (current_start < current_start' /\ current_start' <= end)]_vars
    /\ [](\A k \in 1..Len(PRODUCT_IDS) :
             Returned(k) => /\ Len(WindowsOf(k)) = ExpectedRequests(start, end)
                            /\ (start >= end /\ pc = "store") => all_candles = <<>>)

\* C9's case: a finished run whose span is no multiple of the window
C9_Witness ==
    /\ pc = "store"
    /\ idx = 2
    /\ (end - start) % delta # 0
    /\ Len(requests) = 2 * Len(PRODUCT_IDS)

---------------------------------------------------------------------------
(* Properties of store_data *)

\* the rows of the table with the key (IsoFormat(t), p)
RowsOfKey(t, p) ==
    {i \in DOMAIN table : table[i].timestamp = IsoFormat(t) /\ table[i].product_id = p}

\* C1: the table holds exactly one row for every (timestamp, product) pair that
\* occurred in a stored candle list, and no two rows share a key.
C1_ExactlyOnce ==
    /\ \A o \in occurred : Cardinality(RowsOfKey(o[1], o[2])) = 1
    /\ \A i, j \in DOMAIN table :
          (table[i].timestamp = table[j].timestamp
              /\ table[i].product_id = table[j].product_id) => i = j

\* C1's case: a later call repeated a stored key, next to other rows
C1_Witness == calls >= 2 /\ conflict /\ Len(table) >= 2

\* every candle of the list has its key in the table
AllStored(tbl, p, cs) == \A i \in DOMAIN cs : HasKey(tbl, RowOf(p, cs[i]))

\* C3: storing a list a second time leaves the table as the first time left it,
\* and storing candles whose keys are all present leaves the table unchanged.
C3_Idempotent ==
    \A p \in Products, cs \in CandleLists :
        LET once == StoreRows(table, p, cs)
        IN /\ StoreRows(once, p, cs) = once
           /\ AllStored(table, p, cs) => once = table

\* C3's case: a call with a non-empty list that added nothing
C3_Witness == calls >= 2 /\ count > 0 /\ added = 0 /\ table # <<>>

\* C8: the count store_data reports is the number of rows the call added.
C8_ReportedCount == count = added

\* the candle of the list that comes first among those with the timestamp of cs[i]
FirstWithKey(cs, i) ==
    cs[CHOOSE m \in DOMAIN cs :
          /\ cs[m][1] = cs[i][1]
          /\ \A n \in DOMAIN cs : cs[n][1] = cs[i][1] => m <= n]

\* the row that must hold the key of cs[i] once store_data(p, cs) has run on tbl:
\* the row tbl had for the key, else the row of the first candle of the list
\* with that key
WinningRow(tbl, p, cs, i) ==
    IF HasKey(tbl, RowOf(p, cs[i]))
    THEN tbl[CHOOSE k \in DOMAIN tbl :
                /\ tbl[k].timestamp = IsoFormat(cs[i][1])
                /\ tbl[k].product_id = p]
    ELSE RowOf(p, FirstWithKey(cs, i))

\* C10: a store_data call leaves every row already stored as it was and
\* removes none; and whatever list is stored next, every candle of it finds
\* under its key the values that were there first: those of the row the table
\* already had, or else those of the first candle in the list with that key,
\* whatever values the later candles of that key carry.
C10_FirstWriteWins ==
    /\ [][calls' = calls + 1 =>
             /\ Len(table') >= Len(table)
             /\ \A i \in DOMAIN table : table'[i] = table[i]]_vars
    /\ [](\A p \in Products, cs \in CandleLists :
             LET after == StoreRows(table, p, cs)
             IN /\ Len(after) >= Len(table)
                /\ \A i \in DOMAIN table : after[i] = table[i]
                /\ \A i \in DOMAIN cs :
                      /\ \E j \in DOMAIN after : after[j] = WinningRow(table, p, cs, i)
                      /\ \A j \in DOMAIN after :
                            (after[j].timestamp = IsoFormat(cs[i][1])
                                /\ after[j].product_id = p)
                                => after[j] = WinningRow(table, p, cs, i))

\* C10's case: one call on an empty table stored a list of two candles with one
\* key and different values, and one row was added
C10_Witness ==
    /\ conflict
    /\ count = 2
    /\ added = 1
    /\ Len(table) = 1

---------------------------------------------------------------------------
(* Properties of fetch_aggregated_data *)

\* the unix time whose ISO text is ts
UnixOf(ts) == CHOOSE t \in {c[1] : c \in VizCandles} : IsoFormat(t) = ts

\* the hour (hours since the epoch) containing the timestamp of row i
HourOf(i) == UnixOf(table[i].timestamp) \div SecondsPerHour

\* the stored candles of product p in hour h
CandlesIn(p, h) == {i \in DOMAIN table : table[i].product_id = p /\ HourOf(i) = h}

\* C7: the frame has exactly one row per (product, hour) with a stored candle,
\* and that row's volume is the sum and its price the mean over the candles of
\* that product and hour.
C7_HourlyAggregation ==
    pc = "aggregated" =>
        LET G == {<<table[i].product_id, HourOf(i)>> : i \in DOMAIN table}
        IN /\ Len(df) = Cardinality(G)
           /\ \A g \in G : \E k \in DOMAIN df :
                 LET I == CandlesIn(g[1], g[2])
                 IN /\ df[k].product_id = g[1]
                    /\ df[k].hour_bucket = g[2] * SecondsPerHour
                    /\ df[k].hourly_total_volume
                          = SumOver([i \in DOMAIN table |-> table[i].volume], I)
                    /\ df[k].hourly_avg_price.num * Cardinality(I)
                          = SumOver([i \in DOMAIN table |-> table[i].close], I)
                                * df[k].hourly_avg_price.den

\* C7's case: several candles of one hour were aggregated, with other hours present
C7_Witness == pc = "aggregated" /\ Len(df) >= 3 /\ Len(table) > Len(df)

====
